---- MODULE Spec2Model ----
(***************************************************************************)
(* NetMonitor/network_monitor.py: the edge-docked network speed widget.    *)
(*                                                                         *)
(* The model is the widget's geometry state machine (collapse / expand /   *)
(* drag / resize / edge snap), its timers and geometry animations, the     *)
(* application-wide click filter and the psutil rate sampler.              *)
(*                                                                         *)
(* Toolkit behaviour the code relies on, as modelled:                      *)
(*  - the window is frameless, so geometry(), frameGeometry(), pos() agree;*)
(*  - setFixedSize(w, h) sets minimum = maximum = (w, h) and resizes;      *)
(*    setGeometry and a geometry animation keep the size inside minimum    *)
(*    and maximum, so they move the widget and leave its fixed size;       *)
(*  - a QTimer is its interval in ms while active and 0 while inactive;    *)
(*    its expiry is a step of its own;                                     *)
(*  - a QPropertyAnimation is applied in one step when it finishes;        *)
(*    rebinding self.animation drops the previous animation object;        *)
(*  - widget_position.json is written by save_position and read only by    *)
(*    load_position of the next process: it is an input of Init.           *)
(***************************************************************************)
EXTENDS Integers, Sequences, FiniteSets, TLC

----------------------------------------------------------------------------
(* Bounds of the model *)

\* primary screen geometry reported by the toolkit
ScreenWidth == 1024
ScreenHeight == 768
\* number of left-button gestures (press ... release) explored in one run
MaxGestures == 1
\* number of QTimer.singleShot callbacks that may be pending at once
MaxSingleShots == 1
\* a pointer displacement that crosses the middle of the screen, and its vertical part
FarDelta == 600
FarDeltaY == 300
\* pointer displacements of a resize gesture: a small one, and one that asks for more
\* than the maximum or less than the minimum panel size
NearResize == 20
NearResizeY == 30
FarResize == 300
\* clock values (s) and cumulative byte counters the sampler may read
MaxSampleTime == 2
SampleSentSmall == 1000
SampleSentLarge == 132072
SampleRecvLarge == 262144

----------------------------------------------------------------------------
(* Program constants *)

widget_width == 12
widget_height == 40
default_panel_width == 280
default_panel_height == 160
min_panel_width == 220
min_panel_height == 120
max_panel_width == 500
max_panel_height == 400
drag_threshold == 5
resize_threshold == 8
edge_margin == 10
update_interval == 1000
auto_collapse_interval == 10000
hover_delay_interval == 10000
launch_interval == 5000
outside_click_delay == 50
bytes_per_mbit == 1048576
kbps_per_mbps == 1024

----------------------------------------------------------------------------
(* Arithmetic and geometry helpers *)

Max(a, b) == IF a >= b THEN a ELSE b

Min(a, b) == IF a <= b THEN a ELSE b

Abs(a) == IF a >= 0 THEN a ELSE 0 - a

Point(px, py) == [x |-> px, y |-> py]

Rect(rx, ry, rw, rh) == [x |-> rx, y |-> ry, w |-> rw, h |-> rh]

NoPoint == Point(0, 0)

\* QPoint.manhattanLength
manhattanLength(p) == Abs(p.x) + Abs(p.y)

\* QRect.contains(QPoint): the right and bottom edges are x + w - 1, y + h - 1
contains(r, p) ==
    /\ r.x <= p.x /\ p.x <= r.x + r.w - 1
    /\ r.y <= p.y /\ p.y <= r.y + r.h - 1

\* QWidget.move
move(g, px, py) == [g EXCEPT !.x = px, !.y = py]

\* QWidget.setFixedSize: minimum and maximum size become (w, h)
setFixedSize(g, w, h) == [g EXCEPT !.w = w, !.h = h]

\* QWidget.setGeometry on a widget whose minimum = maximum = its size
setGeometry(g, r) ==
    [x |-> r.x, y |-> r.y,
     w |-> Max(g.w, Min(r.w, g.w)),
     h |-> Max(g.h, Min(r.h, g.h))]

----------------------------------------------------------------------------
(* Rate sampler: class NetworkMonitor *)

\* A speed in Mbps is the exact fraction n / d (d > 0) of the float the code computes.
Speed(n, d) == [n |-> n, d |-> d]

ZeroSpeed == Speed(0, 1)

\* greatest common divisor of a >= 0 and b > 0 (fractions are reduced by it before
\* they are scaled, to keep the numbers small)
RECURSIVE Gcd(_, _)
Gcd(a, b) == IF a = 0 THEN b ELSE Gcd(b % a, a)

\* round(n / d) to the nearest integer, ties to even, for n >= 0 and d > 0
RoundHalfEven(n, d) ==
    LET q == n \div d
        r == n % d
    IN  IF 2 * r < d THEN q
        ELSE IF 2 * r > d THEN q + 1
        ELSE IF q % 2 = 0 THEN q ELSE q + 1

\* A label text "<sign><digits with `decimals` decimals> <unit>"
Text(negative, scaled, decimals, unit) ==
    [negative |-> negative, scaled |-> scaled, decimals |-> decimals, unit |-> unit]

\* the literal "0.00 Mbps" both speed labels are created with
InitialLabel == Text(FALSE, 0, 2, "Mbps")

\* The monitor is <<>> while self.network_monitor is None, else <<its fields>>.
\* NetworkMonitor.__init__ and _initialize_network_stats, reading the clock and counters
NetworkMonitor_init(reading) ==
    [last_bytes_sent |-> reading.bytes_sent,
     last_bytes_recv |-> reading.bytes_recv,
     last_time |-> reading.time]

\* the bytes a returned speed accounts for over the elapsed time it was computed for:
\* speed (Mbps) * elapsed * 1048576 / 8
BytesOf(speed, elapsed) ==
    IF elapsed <= 0 THEN 0
    ELSE (speed.n * elapsed) \div (8 * (speed.d \div bytes_per_mbit))

\* get_network_speed storing the counters and time just read on the early return too
get_network_speed_always_rebases(m, reading) ==
    LET time_diff == reading.time - m.last_time
        bytes_sent_diff == reading.bytes_sent - m.last_bytes_sent
        bytes_recv_diff == reading.bytes_recv - m.last_bytes_recv
        read == [last_bytes_sent |-> reading.bytes_sent,
                 last_bytes_recv |-> reading.bytes_recv,
                 last_time |-> reading.time]
    IN  IF time_diff <= 0
        THEN [upload |-> ZeroSpeed, download |-> ZeroSpeed, monitor |-> read,
              elapsed |-> time_diff]
        ELSE [upload |-> Speed(bytes_sent_diff * 8, time_diff * bytes_per_mbit),
              download |-> Speed(bytes_recv_diff * 8, time_diff * bytes_per_mbit),
              elapsed |-> time_diff,
              monitor |-> read]

\* get_network_speed returning bytes per second scaled to mega, the factor 8 left out
get_network_speed_in_bytes(m, reading) ==
    LET time_diff == reading.time - m.last_time
        bytes_sent_diff == reading.bytes_sent - m.last_bytes_sent
        bytes_recv_diff == reading.bytes_recv - m.last_bytes_recv
    IN  IF time_diff <= 0
        THEN [upload |-> ZeroSpeed, download |-> ZeroSpeed, monitor |-> m,
              elapsed |-> time_diff]
        ELSE [upload |-> Speed(bytes_sent_diff, time_diff * bytes_per_mbit),
              download |-> Speed(bytes_recv_diff, time_diff * bytes_per_mbit),
              elapsed |-> time_diff,
              monitor |-> [last_bytes_sent |-> reading.bytes_sent,
                           last_bytes_recv |-> reading.bytes_recv,
                           last_time |-> reading.time]]

\* NetworkMonitor.get_network_speed: the speeds returned, the monitor afterwards and
\* the elapsed time (time_diff) it computed
get_network_speed(m, reading) ==
    LET time_diff == reading.time - m.last_time
        bytes_sent_diff == reading.bytes_sent - m.last_bytes_sent
        bytes_recv_diff == reading.bytes_recv - m.last_bytes_recv
    IN  IF time_diff <= 0
        THEN [upload |-> ZeroSpeed, download |-> ZeroSpeed, monitor |-> m,
              elapsed |-> time_diff]
        ELSE [upload |-> Speed(bytes_sent_diff * 8, time_diff * bytes_per_mbit),
              download |-> Speed(bytes_recv_diff * 8, time_diff * bytes_per_mbit),
              elapsed |-> time_diff,
              monitor |-> [last_bytes_sent |-> reading.bytes_sent,
                           last_bytes_recv |-> reading.bytes_recv,
                           last_time |-> reading.time]]

\* format_speed with the unit chosen by speed_mbps > 1.0
format_speed_above_threshold(speed_mbps) ==
    IF speed_mbps.n > speed_mbps.d
    THEN Text(FALSE, RoundHalfEven(100 * speed_mbps.n, speed_mbps.d), 2, "Mbps")
    ELSE LET g == Gcd(kbps_per_mbps, speed_mbps.d)
         IN  Text(speed_mbps.n < 0,
                  RoundHalfEven(10 * (kbps_per_mbps \div g) * Abs(speed_mbps.n),
                                speed_mbps.d \div g),
                  1, "Kbps")

\* NetworkMonitor.format_speed
format_speed(speed_mbps) ==
    IF speed_mbps.n >= speed_mbps.d
    THEN Text(FALSE, RoundHalfEven(100 * speed_mbps.n, speed_mbps.d), 2, "Mbps")
    ELSE LET g == Gcd(kbps_per_mbps, speed_mbps.d)
         IN  Text(speed_mbps.n < 0,
                  RoundHalfEven(10 * (kbps_per_mbps \div g) * Abs(speed_mbps.n),
                                speed_mbps.d \div g),
                  1, "Kbps")

----------------------------------------------------------------------------
(* Geometry controller: pure parts of class UnifiedNetworkWidget *)

\* the current y if it is positive, else the vertical centre for height h
current_y_or_centre(g, h) == IF g.y > 0 THEN g.y ELSE (ScreenHeight - h) \div 2

\* UnifiedNetworkWidget.position_widget
position_widget(g, expanded, on_right, pw, ph) ==
    IF expanded
    THEN move(g,
              IF on_right THEN ScreenWidth - pw - edge_margin ELSE edge_margin,
              Max(0, Min(current_y_or_centre(g, ph), ScreenHeight - ph)))
    ELSE move(g,
              IF on_right THEN ScreenWidth - widget_width ELSE 0,
              Max(0, Min(current_y_or_centre(g, widget_height),
                         ScreenHeight - widget_height)))

\* the x coordinate animate_to_edge aims at
target_x(expanded, on_right, pw) ==
    IF expanded
    THEN IF on_right THEN ScreenWidth - pw - edge_margin ELSE edge_margin
    ELSE IF on_right THEN ScreenWidth - widget_width ELSE 0

\* animate_to_edge without the clamp of y to the screen
end_rect_unclamped(expanded, on_right, current_rect, pw, ph) ==
    LET target_width == IF expanded THEN pw ELSE widget_width
        target_height == IF expanded THEN ph ELSE widget_height
    IN  Rect(target_x(expanded, on_right, pw), current_rect.y, target_width,
             target_height)

\* UnifiedNetworkWidget.animate_to_edge: the end rectangle of the animation it starts
end_rect(expanded, on_right, current_rect, pw, ph) ==
    LET target_width == IF expanded THEN pw ELSE widget_width
        target_height == IF expanded THEN ph ELSE widget_height
        target_y == Max(0, Min(current_rect.y, ScreenHeight - target_height))
    IN  Rect(target_x(expanded, on_right, pw), target_y, target_width, target_height)

\* snap_to_edge comparing the centre with the screen width instead of its half
nearest_edge_whole_width(expanded, current_pos, pw) ==
    LET center_x == IF expanded
                    THEN current_pos.x + pw \div 2
                    ELSE current_pos.x + widget_width \div 2
    IN  center_x > ScreenWidth

\* UnifiedNetworkWidget.snap_to_edge: the edge chosen for a widget at current_pos
nearest_edge_is_right(expanded, current_pos, pw) ==
    LET center_x == IF expanded
                    THEN current_pos.x + pw \div 2
                    ELSE current_pos.x + widget_width \div 2
    IN  center_x > ScreenWidth \div 2

\* the drag test with >= in place of >
reaches_drag_threshold(move_distance) == move_distance >= drag_threshold

\* UnifiedNetworkWidget.mouseMoveEvent: the test that starts a drag
exceeds_drag_threshold(move_distance) == move_distance > drag_threshold

\* the drag position computed from the press position instead of the grab offset
drag_position_from_press(global, offset) == global

\* UnifiedNetworkWidget.mouseMoveEvent: where a drag moves the widget to
drag_position(global, offset) == Point(global.x - offset.x, global.y - offset.y)

\* the click behaviour as a plain toggle, ignoring hover_expand_enabled
click_toggles(expanded, hover_enabled) ==
    IF expanded THEN "collapse_widget" ELSE "expand_widget"

\* UnifiedNetworkWidget.mouseReleaseEvent: what a release that ends neither a drag nor
\* a resize does
click_action(expanded, hover_enabled) ==
    IF expanded THEN "collapse_widget"
    ELSE IF ~hover_enabled THEN "expand_widget"
    ELSE "nothing"

\* the enter test without the checks for a drag or resize in progress
enter_expands_during_gesture(hover_enabled, expanded, is_dragging, is_resizing) ==
    hover_enabled /\ ~expanded

\* UnifiedNetworkWidget.enterEvent: the test that expands the widget
enter_expands(hover_enabled, expanded, is_dragging, is_resizing) ==
    hover_enabled /\ ~expanded /\ ~is_dragging /\ ~is_resizing

\* UnifiedNetworkWidget.leaveEvent: the test that starts the hover delay timer
leave_starts_timer(hover_enabled, expanded, is_dragging, is_resizing) ==
    hover_enabled /\ expanded /\ ~is_dragging /\ ~is_resizing

\* the filter with mouse presses only, touches ignored
eventFilter_mouse_only(type, pos, expanded, g, shots, auto_collapse) ==
    IF type = "MouseButtonPress" /\ expanded
    THEN IF ~contains(g, pos)
         THEN [single_shots |-> Append(shots, outside_click_delay),
               auto_collapse_timer |-> auto_collapse,
               consumed |-> FALSE]
         ELSE [single_shots |-> shots,
               auto_collapse_timer |-> auto_collapse_interval,
               consumed |-> FALSE]
    ELSE [single_shots |-> shots, auto_collapse_timer |-> auto_collapse,
          consumed |-> FALSE]

\* GlobalClickFilter.eventFilter for a left MouseButtonPress at globalPos pos, or a
\* TouchBegin whose first touch point is at screen position pos: the pending single
\* shots and the auto-collapse timer afterwards, and the value returned
eventFilter(type, pos, expanded, g, shots, auto_collapse) ==
    IF type \in {"MouseButtonPress", "TouchBegin"} /\ expanded
    THEN IF ~contains(g, pos)
         THEN [single_shots |-> Append(shots, outside_click_delay),
               auto_collapse_timer |-> auto_collapse,
               consumed |-> FALSE]
         ELSE [single_shots |-> shots,
               auto_collapse_timer |-> auto_collapse_interval,
               consumed |-> FALSE]
    ELSE [single_shots |-> shots, auto_collapse_timer |-> auto_collapse,
          consumed |-> FALSE]

\* UnifiedNetworkWidget.get_resize_cursor_zone for a local position in a rect of size w, h
get_resize_cursor_zone(expanded, pos, w, h) ==
    LET margin == resize_threshold
    IN  IF ~expanded THEN "None"
        ELSE IF pos.x <= margin /\ pos.y <= margin THEN "SizeFDiagCursor"
        ELSE IF pos.x >= w - margin /\ pos.y <= margin THEN "SizeBDiagCursor"
        ELSE IF pos.x <= margin /\ pos.y >= h - margin THEN "SizeBDiagCursor"
        ELSE IF pos.x >= w - margin /\ pos.y >= h - margin THEN "SizeFDiagCursor"
        ELSE IF pos.x <= margin THEN "SizeHorCursor"
        ELSE IF pos.x >= w - margin THEN "SizeHorCursor"
        ELSE IF pos.y <= margin THEN "SizeVerCursor"
        ELSE IF pos.y >= h - margin THEN "SizeVerCursor"
        ELSE "None"

\* UnifiedNetworkWidget.perform_resize: the panel size and the rectangle passed to
\* setGeometry for a pointer at pos; rect_width is self.rect().width()
perform_resize(start_position, start_size, start_geometry, cursor_type, rect_width, pos) ==
    LET delta == Point(pos.x - start_position.x, pos.y - start_position.y)
        start_local_x == start_position.x - start_geometry.x
        start_local_y == start_position.y - start_geometry.y
        left == \/ /\ cursor_type = "SizeHorCursor"
                   /\ start_local_x <= resize_threshold
                \/ /\ cursor_type = "SizeFDiagCursor"
                   /\ start_local_x <= resize_threshold
                   /\ start_local_y <= resize_threshold
                \/ /\ cursor_type = "SizeBDiagCursor"
                   /\ ~(/\ start_local_x >= rect_width - resize_threshold
                        /\ start_local_y <= resize_threshold)
        right == \/ /\ cursor_type = "SizeHorCursor"
                    /\ ~(start_local_x <= resize_threshold)
                 \/ /\ cursor_type = "SizeFDiagCursor"
                    /\ ~(/\ start_local_x <= resize_threshold
                         /\ start_local_y <= resize_threshold)
                 \/ /\ cursor_type = "SizeBDiagCursor"
                    /\ start_local_x >= rect_width - resize_threshold
                    /\ start_local_y <= resize_threshold
        top == \/ /\ cursor_type = "SizeVerCursor"
                  /\ start_local_y <= resize_threshold
               \/ /\ cursor_type = "SizeFDiagCursor"
                  /\ start_local_x <= resize_threshold
                  /\ start_local_y <= resize_threshold
               \/ /\ cursor_type = "SizeBDiagCursor"
                  /\ start_local_x >= rect_width - resize_threshold
                  /\ start_local_y <= resize_threshold
        bottom == \/ /\ cursor_type = "SizeVerCursor"
                     /\ ~(start_local_y <= resize_threshold)
                  \/ /\ cursor_type = "SizeFDiagCursor"
                     /\ ~(/\ start_local_x <= resize_threshold
                          /\ start_local_y <= resize_threshold)
                  \/ /\ cursor_type = "SizeBDiagCursor"
                     /\ ~(/\ start_local_x >= rect_width - resize_threshold
                          /\ start_local_y <= resize_threshold)
        new_width == IF left THEN start_size.w - delta.x
                     ELSE IF right THEN start_size.w + delta.x
                     ELSE start_size.w
        new_height == IF top THEN start_size.h - delta.y
                      ELSE IF bottom THEN start_size.h + delta.y
                      ELSE start_size.h
        new_x == IF left THEN start_geometry.x + delta.x ELSE start_geometry.x
        new_y == IF top THEN start_geometry.y + delta.y ELSE start_geometry.y
        constrained_width == Max(min_panel_width, Min(new_width, max_panel_width))
        constrained_height == Max(min_panel_height, Min(new_height, max_panel_height))
        adjusted_x == IF new_width # constrained_width /\ new_x # start_geometry.x
                      THEN start_geometry.x + (start_size.w - constrained_width)
                      ELSE new_x
        adjusted_y == IF new_height # constrained_height /\ new_y # start_geometry.y
                      THEN start_geometry.y + (start_size.h - constrained_height)
                      ELSE new_y
    IN  [panel_width |-> constrained_width,
         panel_height |-> constrained_height,
         rect |-> Rect(adjusted_x, adjusted_y, constrained_width, constrained_height)]

\* load_position taking the saved size as it is, without the bounds checking
load_position_unclamped(w, file) ==
    IF file = <<>>
    THEN [w EXCEPT !.geometry = position_widget(w.geometry, w.is_expanded, w.is_on_right,
                                                w.panel_width, w.panel_height)]
    ELSE LET position_data == file[1]
             max_x == IF w.is_expanded THEN ScreenWidth - position_data.width
                      ELSE ScreenWidth - widget_width
             max_y == IF w.is_expanded THEN ScreenHeight - position_data.height
                      ELSE ScreenHeight - widget_height
         IN  [w EXCEPT !.is_on_right = position_data.is_on_right,
                       !.hover_expand_enabled = position_data.hover_expand_enabled,
                       !.panel_width = position_data.width,
                       !.panel_height = position_data.height,
                       !.geometry = move(w.geometry,
                                         Max(0, Min(position_data.x, max_x)),
                                         Max(0, Min(position_data.y, max_y)))]

\* UnifiedNetworkWidget.load_position: the widget after reading the file; the file is
\* <<>> when it does not exist and <<position_data>> when it does
load_position(w, file) ==
    IF file = <<>>
    THEN [w EXCEPT !.geometry = position_widget(w.geometry, w.is_expanded, w.is_on_right,
                                                w.panel_width, w.panel_height)]
    ELSE LET position_data == file[1]
             pw == Max(min_panel_width, Min(position_data.width, max_panel_width))
             ph == Max(min_panel_height, Min(position_data.height, max_panel_height))
             max_x == IF w.is_expanded THEN ScreenWidth - pw ELSE ScreenWidth - widget_width
             max_y == IF w.is_expanded THEN ScreenHeight - ph
                      ELSE ScreenHeight - widget_height
         IN  [w EXCEPT !.is_on_right = position_data.is_on_right,
                       !.hover_expand_enabled = position_data.hover_expand_enabled,
                       !.panel_width = pw,
                       !.panel_height = ph,
                       !.geometry = move(w.geometry,
                                         Max(0, Min(position_data.x, max_x)),
                                         Max(0, Min(position_data.y, max_y)))]

\* show_launch_animation keeping the state load_position left instead of expanding
show_launch_animation_as_loaded(w, reading) ==
    LET final_x == IF w.is_on_right THEN ScreenWidth - w.panel_width - edge_margin
                   ELSE edge_margin
        final_y == Max(0, Min(current_y_or_centre(w.geometry, w.panel_height),
                              ScreenHeight - w.panel_height))
        start_x == IF w.is_on_right THEN ScreenWidth ELSE 0 - w.panel_width
    IN  [w EXCEPT !.geometry = move(w.geometry, start_x, final_y),
                  !.network_monitor = <<NetworkMonitor_init(reading)>>,
                  !.slide_animation =
                      [running |-> TRUE,
                       end |-> Rect(final_x, final_y, w.panel_width, w.panel_height)],
                  !.launch_timer = launch_interval]

\* UnifiedNetworkWidget.show_launch_animation: expanded, off-screen, sliding in
show_launch_animation(w, reading) ==
    LET final_x == IF w.is_on_right THEN ScreenWidth - w.panel_width - edge_margin
                   ELSE edge_margin
        sized == setFixedSize(w.geometry, w.panel_width, w.panel_height)
        final_y == Max(0, Min(current_y_or_centre(sized, w.panel_height),
                              ScreenHeight - w.panel_height))
        start_x == IF w.is_on_right THEN ScreenWidth ELSE 0 - w.panel_width
    IN  [w EXCEPT !.is_expanded = TRUE,
                  !.geometry = move(sized, start_x, final_y),
                  !.network_monitor = <<NetworkMonitor_init(reading)>>,
                  !.update_timer = update_interval,
                  !.slide_animation =
                      [running |-> TRUE,
                       end |-> Rect(final_x, final_y, w.panel_width, w.panel_height)],
                  !.launch_timer = launch_interval]

\* UnifiedNetworkWidget.__init__ up to load_position: defaults, collapsed at (0, 0)
defaults ==
    [is_expanded |-> FALSE,
     is_on_right |-> TRUE,
     hover_expand_enabled |-> TRUE,
     panel_width |-> default_panel_width,
     panel_height |-> default_panel_height,
     geometry |-> Rect(0, 0, widget_width, widget_height),
     network_monitor |-> <<>>,
     update_timer |-> 0,
     launch_timer |-> 0,
     slide_animation |-> [running |-> FALSE, end |-> Rect(0, 0, 0, 0)]]

\* UnifiedNetworkWidget.__init__: the widget once the constructor has returned
construct(file, reading) == show_launch_animation(load_position(defaults, file), reading)

----------------------------------------------------------------------------
(* Inputs *)

\* contents of widget_position.json found at start-up (<<>>: no file), as
\* save_position wrote them in an earlier run: docked to the left edge at the top of
\* the screen, the panel resized to 220 x 400, hover expand switched off; saved while
\* collapsed and while expanded; and a file edited by hand, its position and size
\* outside the screen and the limits
SavedFiles ==
    { <<>>,
      <<[x |-> 5000, y |-> 0, width |-> 100, height |-> 900, is_on_right |-> FALSE,
         is_expanded |-> FALSE, hover_expand_enabled |-> FALSE]>>,
      <<[x |-> 0, y |-> 0, width |-> 220, height |-> 400, is_on_right |-> FALSE,
         is_expanded |-> FALSE, hover_expand_enabled |-> FALSE]>>,
      <<[x |-> 10, y |-> 0, width |-> 220, height |-> 400, is_on_right |-> FALSE,
         is_expanded |-> TRUE, hover_expand_enabled |-> FALSE]>> }

\* what time.time() and psutil.net_io_counters() return when the monitor is created
InitialReadings == { [time |-> 0, bytes_sent |-> 0, bytes_recv |-> 0] }

\* what they return at an update: one second later, the counters unchanged
Readings == { [time |-> 1, bytes_sent |-> 0, bytes_recv |-> 0] }

\* event.pos() of a left press: the centre, the left edge and the top-right corner
\* of an expanded panel, the centre of the collapsed handle
PressPoints(expanded, w, h) ==
    IF expanded
    THEN { Point(w \div 2, h \div 2), Point(0, h \div 2), Point(w - 1, 0) }
    ELSE { Point(w \div 2, h \div 2) }

\* displacement of the pointer from the press position at a mouse move
MoveDeltas ==
    { Point(drag_threshold - 2, 2), Point(drag_threshold - 1, 2),
      Point(FarDelta, 0 - FarDeltaY), Point(0 - FarDelta, FarDeltaY) }

\* globalPos of a press or touch seen by the application-wide filter
FilterPoints(g) ==
    { Point(g.x, g.y), Point(g.x + g.w - 1, g.y + g.h - 1),
      Point(g.x - 1, g.y), Point(g.x + g.w, g.y + g.h - 1), Point(g.x, g.y + g.h) }

\* a pointer position on the primary screen
OnScreen(p) == 0 <= p.x /\ p.x < ScreenWidth /\ 0 <= p.y /\ p.y < ScreenHeight

\* what time.time() and psutil.net_io_counters() may return at any call: the clock may
\* stand still or step back, the counters may grow, stay or restart
SampleReadings ==
    [time : 0..MaxSampleTime,
     bytes_sent : {0, SampleSentSmall, SampleSentLarge},
     bytes_recv : {0, SampleRecvLarge}]

\* event.pos() of a left press in each resize zone of an expanded panel (four corners,
\* four edges); the centre of the collapsed handle
ResizePressPoints(expanded, w, h) ==
    IF expanded
    THEN { Point(0, 0), Point(w - 1, 0), Point(0, h - 1), Point(w - 1, h - 1),
           Point(0, h \div 2), Point(w - 1, h \div 2),
           Point(w \div 2, 0), Point(w \div 2, h - 1) }
    ELSE { Point(w \div 2, h \div 2) }

\* displacement of the pointer from the press position at a mouse move of a resize
ResizeDeltas ==
    { Point(NearResize, NearResizeY), Point(0 - NearResize, 0 - NearResizeY),
      Point(FarResize, FarResize), Point(0 - FarResize, 0 - FarResize),
      Point(FarResize, 0 - FarResize), Point(0 - FarResize, FarResize) }

----------------------------------------------------------------------------
(* State *)

VARIABLES
    is_expanded, is_on_right, dragging, resizing, hover_expand_enabled,
    panel_width, panel_height,
    geometry,               \* the widget's rectangle on the screen
    mouse_press_position, drag_start_position,
    resize_start_position, resize_start_size, resize_start_geometry, resize_cursor_type,
    update_timer, auto_collapse_timer, hide_timer, hover_delay_timer, launch_timer,
    single_shots,           \* delays of the pending QTimer.singleShot(.., collapse_widget)
    animation, slide_animation,
    network_monitor, upload_speed_label, download_speed_label,
    sample_log,             \* the monitor as created, and the bytes its samples counted
    left_button,            \* the left button is held since a press on the widget
    gestures,               \* left presses handled so far
    user_input              \* some input event has been handled since start-up

pressVars == <<mouse_press_position, drag_start_position>>

resizeStartVars ==
    <<resize_start_position, resize_start_size, resize_start_geometry, resize_cursor_type>>

samplerVars == <<network_monitor, upload_speed_label, download_speed_label, sample_log>>

vars ==
    <<is_expanded, is_on_right, dragging, resizing, hover_expand_enabled,
      panel_width, panel_height, geometry, pressVars, resizeStartVars,
      update_timer, auto_collapse_timer, hide_timer, hover_delay_timer, launch_timer,
      single_shots, animation, slide_animation, samplerVars,
      left_button, gestures, user_input>>

\* The state once UnifiedNetworkWidget() and NetworkMonitorApp() have been constructed
InitWith(file, reading) ==
        LET w == construct(file, reading)
        IN  /\ is_expanded = w.is_expanded
            /\ is_on_right = w.is_on_right
            /\ dragging = FALSE
            /\ resizing = FALSE
            /\ hover_expand_enabled = w.hover_expand_enabled
            /\ panel_width = w.panel_width
            /\ panel_height = w.panel_height
            /\ geometry = w.geometry
            /\ mouse_press_position = NoPoint
            /\ drag_start_position = NoPoint
            /\ resize_start_position = NoPoint
            /\ resize_start_size = [w |-> 0 - 1, h |-> 0 - 1]
            /\ resize_start_geometry = Rect(0, 0, 0, 0)
            /\ resize_cursor_type = "None"
            /\ update_timer = w.update_timer
            /\ auto_collapse_timer = 0
            /\ hide_timer = 0
            /\ hover_delay_timer = 0
            /\ launch_timer = w.launch_timer
            /\ single_shots = <<>>
            /\ animation = [running |-> FALSE, end |-> Rect(0, 0, 0, 0)]
            /\ slide_animation = w.slide_animation
            /\ network_monitor = w.network_monitor
            /\ upload_speed_label = InitialLabel
            /\ download_speed_label = InitialLabel
            /\ sample_log = [first |-> w.network_monitor, sent |-> 0, recv |-> 0]
            /\ left_button = FALSE
            /\ gestures = 0
            /\ user_input = FALSE

Init == \E file \in SavedFiles, reading \in InitialReadings : InitWith(file, reading)

----------------------------------------------------------------------------
(* Methods called by the handlers.  Each is the part of a step that the method *)
(* performs; the handler that calls it states what else stays unchanged.  The  *)
(* methods that end in animate_to_edge read is_on_right', panel_width' and     *)
(* panel_height', which the calling handler fixes first.                       *)

\* set_collapsed_state as it would be without its "stop network monitoring" lines
set_collapsed_state_keeps_timer ==
    /\ is_expanded' = FALSE
    /\ geometry' = setFixedSize(geometry, widget_width, widget_height)
    /\ update_timer' = update_timer

\* UnifiedNetworkWidget.set_collapsed_state
set_collapsed_state ==
    /\ is_expanded' = FALSE
    /\ geometry' = setFixedSize(geometry, widget_width, widget_height)
    /\ update_timer' = 0

\* set_expanded_state creating a new NetworkMonitor at every expansion
set_expanded_state_new_monitor(reading) ==
    /\ is_expanded' = TRUE
    /\ geometry' = setFixedSize(geometry, panel_width, panel_height)
    /\ network_monitor' = <<NetworkMonitor_init(reading)>>
    /\ sample_log' = IF network_monitor = <<>>
                     THEN [first |-> <<NetworkMonitor_init(reading)>>,
                           sent |-> 0, recv |-> 0]
                     ELSE sample_log
    /\ update_timer' = update_interval

\* UnifiedNetworkWidget.set_expanded_state
set_expanded_state(reading) ==
    /\ is_expanded' = TRUE
    /\ geometry' = setFixedSize(geometry, panel_width, panel_height)
    /\ network_monitor' = IF network_monitor = <<>>
                          THEN <<NetworkMonitor_init(reading)>>
                          ELSE network_monitor
    /\ sample_log' = IF network_monitor = <<>>
                     THEN [first |-> <<NetworkMonitor_init(reading)>>,
                           sent |-> 0, recv |-> 0]
                     ELSE sample_log
    /\ update_timer' = update_interval

\* UnifiedNetworkWidget.animate_to_edge, called last in a step: a new animation from
\* the current rectangle to the edge replaces self.animation
animate_to_edge ==
    animation' = [running |-> TRUE,
                  end |-> end_rect(is_expanded', is_on_right', geometry',
                                   panel_width', panel_height')]

\* UnifiedNetworkWidget.collapse_widget
collapse_widget ==
    /\ auto_collapse_timer' = 0
    /\ hover_delay_timer' = 0
    /\ set_collapsed_state
    /\ animate_to_edge

\* UnifiedNetworkWidget.expand_widget
expand_widget(reading) ==
    /\ hide_timer' = 0
    /\ set_expanded_state(reading)
    /\ animate_to_edge

\* UnifiedNetworkWidget.reset_auto_collapse_timer
reset_auto_collapse_timer ==
    auto_collapse_timer' = IF is_expanded THEN auto_collapse_interval
                           ELSE auto_collapse_timer

\* UnifiedNetworkWidget.start_resize
start_resize(pos, cursor_type) ==
    /\ resizing' = TRUE
    /\ resize_start_position' = pos
    /\ resize_start_size' = [w |-> geometry.w, h |-> geometry.h]
    /\ resize_start_geometry' = geometry
    /\ resize_cursor_type' = cursor_type
    /\ auto_collapse_timer' = 0

\* UnifiedNetworkWidget.finish_resize
finish_resize ==
    /\ resizing' = FALSE
    /\ geometry' = setFixedSize(geometry, panel_width, panel_height)

\* UnifiedNetworkWidget.snap_to_edge
snap_to_edge ==
    /\ is_on_right' = nearest_edge_is_right(is_expanded, geometry, panel_width)
    /\ animate_to_edge

\* UnifiedNetworkWidget.update_network_speeds
update_network_speeds(reading) ==
    IF ~is_expanded \/ network_monitor = <<>>
    THEN UNCHANGED samplerVars
    ELSE LET got == get_network_speed(network_monitor[1], reading)
         IN  /\ network_monitor' = <<got.monitor>>
             /\ upload_speed_label' = format_speed(got.upload)
             /\ download_speed_label' = format_speed(got.download)
             /\ sample_log' = [sample_log EXCEPT
                                  !.sent = @ + BytesOf(got.upload, got.elapsed),
                                  !.recv = @ + BytesOf(got.download, got.elapsed)]

----------------------------------------------------------------------------
(* Pointer input handled by the widget *)

\* UnifiedNetworkWidget.mousePressEvent for a left press at local position pos.
\* The application-wide filter sees the press first; what it does for a press
\* inside the widget (restart the auto-collapse timer) is done again or undone here.
MousePress(pos) ==
    LET global == Point(geometry.x + pos.x, geometry.y + pos.y)
        resize_cursor == get_resize_cursor_zone(is_expanded, pos, geometry.w, geometry.h)
    IN  /\ ~left_button
        /\ gestures < MaxGestures
        /\ OnScreen(global)
        /\ left_button' = TRUE
        /\ gestures' = gestures + 1
        /\ user_input' = TRUE
        /\ mouse_press_position' = global
        /\ drag_start_position' = Point(global.x - geometry.x, global.y - geometry.y)
        /\ dragging' = FALSE
        /\ IF is_expanded /\ resize_cursor # "None"
           THEN start_resize(global, resize_cursor)
           ELSE /\ resizing' = FALSE
                /\ reset_auto_collapse_timer
                /\ UNCHANGED resizeStartVars
        /\ UNCHANGED <<is_expanded, is_on_right, hover_expand_enabled, panel_width,
                       panel_height, geometry, update_timer, hide_timer,
                       hover_delay_timer, launch_timer, single_shots, animation,
                       slide_animation, samplerVars>>

\* mouseMoveEvent without the return after perform_resize and without the resizing test
\* of the drag start: a far move during a resize also starts a drag
MouseMove_drag_while_resizing(delta) ==
    LET global == Point(mouse_press_position.x + delta.x, mouse_press_position.y + delta.y)
        resized == perform_resize(resize_start_position, resize_start_size,
                                  resize_start_geometry, resize_cursor_type,
                                  geometry.w, global)
        move_distance == manhattanLength(Point(global.x - mouse_press_position.x,
                                               global.y - mouse_press_position.y))
        new_pos == drag_position(global, drag_start_position)
    IN  /\ left_button
        /\ OnScreen(global)
        /\ user_input' = TRUE
        /\ dragging' = (dragging \/ exceeds_drag_threshold(move_distance))
        /\ auto_collapse_timer' =
               IF ~dragging /\ exceeds_drag_threshold(move_distance)
               THEN 0 ELSE auto_collapse_timer
        /\ IF resizing
           THEN /\ panel_width' = resized.panel_width
                /\ panel_height' = resized.panel_height
                /\ geometry' = setGeometry(geometry, resized.rect)
           ELSE /\ geometry' =
                       IF dragging' THEN move(geometry, new_pos.x, new_pos.y)
                       ELSE geometry
                /\ UNCHANGED <<panel_width, panel_height>>
        /\ UNCHANGED <<is_expanded, is_on_right, resizing, hover_expand_enabled,
                       pressVars, resizeStartVars, update_timer, hide_timer,
                       hover_delay_timer, launch_timer, single_shots, animation,
                       slide_animation, samplerVars, left_button, gestures>>

\* UnifiedNetworkWidget.mouseMoveEvent with the left button held, the pointer at
\* mouse_press_position + delta.  (With no button held the handler only sets the cursor.)
MouseMove(delta) ==
    LET global == Point(mouse_press_position.x + delta.x, mouse_press_position.y + delta.y)
        resized == perform_resize(resize_start_position, resize_start_size,
                                  resize_start_geometry, resize_cursor_type,
                                  geometry.w, global)
        move_distance == manhattanLength(Point(global.x - mouse_press_position.x,
                                               global.y - mouse_press_position.y))
        new_pos == drag_position(global, drag_start_position)
    IN  /\ left_button
        /\ OnScreen(global)
        /\ user_input' = TRUE
        /\ IF resizing
           THEN /\ panel_width' = resized.panel_width
                /\ panel_height' = resized.panel_height
                /\ geometry' = setGeometry(geometry, resized.rect)
                /\ UNCHANGED <<dragging, auto_collapse_timer>>
           ELSE /\ dragging' = (dragging \/ exceeds_drag_threshold(move_distance))
                /\ auto_collapse_timer' =
                       IF ~dragging /\ exceeds_drag_threshold(move_distance)
                       THEN 0 ELSE auto_collapse_timer
                /\ geometry' =
                       IF dragging' THEN move(geometry, new_pos.x, new_pos.y)
                       ELSE geometry
                /\ UNCHANGED <<panel_width, panel_height>>
        /\ UNCHANGED <<is_expanded, is_on_right, resizing, hover_expand_enabled,
                       pressVars, resizeStartVars, update_timer, hide_timer,
                       hover_delay_timer, launch_timer, single_shots, animation,
                       slide_animation, samplerVars, left_button, gestures>>

\* UnifiedNetworkWidget.mouseReleaseEvent for the left button
MouseRelease(reading) ==
    /\ left_button
    /\ left_button' = FALSE
    /\ user_input' = TRUE
    /\ UNCHANGED <<hover_expand_enabled, panel_width, panel_height, pressVars,
                   resizeStartVars, launch_timer, single_shots, slide_animation,
                   upload_speed_label, download_speed_label, gestures>>
    /\ IF resizing
       THEN /\ finish_resize
            /\ UNCHANGED <<is_expanded, is_on_right, dragging, update_timer,
                           auto_collapse_timer, hide_timer, hover_delay_timer,
                           animation, network_monitor,
                           sample_log>>
       ELSE IF dragging
       THEN /\ UNCHANGED <<is_expanded, geometry>>
            /\ snap_to_edge
            /\ dragging' = FALSE
            /\ UNCHANGED <<resizing, update_timer, auto_collapse_timer, hide_timer,
                           hover_delay_timer, network_monitor,
                           sample_log>>
       ELSE IF click_action(is_expanded, hover_expand_enabled) = "collapse_widget"
       THEN /\ UNCHANGED is_on_right
            /\ collapse_widget
            /\ UNCHANGED <<dragging, resizing, hide_timer, network_monitor,
                           sample_log>>
       ELSE IF click_action(is_expanded, hover_expand_enabled) = "expand_widget"
       THEN /\ UNCHANGED is_on_right
            /\ expand_widget(reading)
            /\ UNCHANGED <<dragging, resizing, auto_collapse_timer, hover_delay_timer>>
       ELSE UNCHANGED <<is_expanded, is_on_right, dragging, resizing, geometry,
                        update_timer, auto_collapse_timer, hide_timer,
                        hover_delay_timer, animation, network_monitor,
                        sample_log>>

\* UnifiedNetworkWidget.enterEvent
EnterEvent(reading) ==
    /\ user_input' = TRUE
    /\ hover_delay_timer' = 0
    /\ UNCHANGED <<is_on_right, dragging, resizing, hover_expand_enabled, panel_width,
                   panel_height, pressVars, resizeStartVars, auto_collapse_timer,
                   launch_timer, single_shots, slide_animation, upload_speed_label,
                   download_speed_label, left_button, gestures>>
    /\ IF enter_expands(hover_expand_enabled, is_expanded, dragging, resizing)
       THEN expand_widget(reading)
       ELSE UNCHANGED <<is_expanded, geometry, update_timer, hide_timer, animation,
                        network_monitor,
                        sample_log>>

\* UnifiedNetworkWidget.leaveEvent
LeaveEvent ==
    /\ user_input' = TRUE
    /\ hover_delay_timer' =
           IF leave_starts_timer(hover_expand_enabled, is_expanded, dragging, resizing)
           THEN hover_delay_interval ELSE hover_delay_timer
    /\ UNCHANGED <<is_expanded, is_on_right, dragging, resizing, hover_expand_enabled,
                   panel_width, panel_height, geometry, pressVars, resizeStartVars,
                   update_timer, auto_collapse_timer, hide_timer, launch_timer,
                   single_shots, animation, slide_animation, samplerVars,
                   left_button, gestures>>

----------------------------------------------------------------------------
(* Other input *)

\* A left press or a touch anywhere in the application reaches
\* GlobalClickFilter.eventFilter
EventFilter(type, pos) ==
    LET filtered == eventFilter(type, pos, is_expanded, geometry, single_shots,
                                auto_collapse_timer)
    IN  /\ Len(filtered.single_shots) <= MaxSingleShots
        /\ user_input' = TRUE
        /\ single_shots' = filtered.single_shots
        /\ auto_collapse_timer' = filtered.auto_collapse_timer
        /\ UNCHANGED <<is_expanded, is_on_right, dragging, resizing,
                       hover_expand_enabled, panel_width, panel_height, geometry,
                       pressVars, resizeStartVars, update_timer, hide_timer,
                       hover_delay_timer, launch_timer, animation, slide_animation,
                       samplerVars, left_button, gestures>>

\* UnifiedNetworkWidget.toggle_hover_expand: a press on the toggle button of the
\* panel, which the filter sees first as a press inside the widget
ToggleHoverExpand ==
    /\ is_expanded
    /\ user_input' = TRUE
    /\ reset_auto_collapse_timer
    /\ hover_expand_enabled' = ~hover_expand_enabled
    /\ UNCHANGED <<is_expanded, is_on_right, dragging, resizing, panel_width,
                   panel_height, geometry, pressVars, resizeStartVars, update_timer,
                   hide_timer, hover_delay_timer, launch_timer, single_shots, animation,
                   slide_animation, samplerVars, left_button, gestures>>

\* NetworkMonitorApp.show_monitor: "Show Monitor" of the tray menu
ShowMonitor(reading) ==
    /\ user_input' = TRUE
    /\ UNCHANGED <<is_on_right, dragging, resizing, hover_expand_enabled, panel_width,
                   panel_height, pressVars, resizeStartVars, auto_collapse_timer,
                   hover_delay_timer, launch_timer, single_shots, slide_animation,
                   upload_speed_label, download_speed_label, left_button, gestures>>
    /\ IF ~is_expanded
       THEN expand_widget(reading)
       ELSE UNCHANGED <<is_expanded, geometry, update_timer, hide_timer, animation,
                        network_monitor,
                        sample_log>>

----------------------------------------------------------------------------
(* Timers and animations *)

\* a collapse from a timer that also ends the gesture in progress
timerCollapseEndsGesture ==
    /\ dragging' = FALSE
    /\ resizing' = FALSE
    /\ UNCHANGED <<hover_expand_enabled, pressVars, resizeStartVars, hide_timer,
                   slide_animation, samplerVars, left_button, gestures, user_input>>

\* what a call of collapse_widget from a timer leaves unchanged
timerCollapseFrame ==
    UNCHANGED <<dragging, resizing, hover_expand_enabled, pressVars, resizeStartVars,
                hide_timer, slide_animation, samplerVars, left_button, gestures,
                user_input>>

\* update_timer.timeout -> update_network_speeds
UpdateTimeout(reading) ==
    /\ update_timer # 0
    /\ update_network_speeds(reading)
    /\ UNCHANGED <<is_expanded, is_on_right, dragging, resizing, hover_expand_enabled,
                   panel_width, panel_height, geometry, pressVars, resizeStartVars,
                   update_timer, auto_collapse_timer, hide_timer, hover_delay_timer,
                   launch_timer, single_shots, animation, slide_animation,
                   left_button, gestures, user_input>>

\* auto_collapse_timer.timeout -> collapse_widget (single shot, 10000 ms after it
\* was started, so after the 600 ms slide animation of the launch has ended)
AutoCollapseTimeout ==
    /\ auto_collapse_timer # 0
    /\ ~slide_animation.running
    /\ UNCHANGED <<is_on_right, panel_width, panel_height>>
    /\ collapse_widget
    /\ UNCHANGED <<launch_timer, single_shots>>
    /\ timerCollapseFrame

\* hover_delay_timer.timeout -> collapse_widget (single shot, 10000 ms after it was
\* started, so after the 600 ms slide animation of the launch has ended)
HoverDelayTimeout ==
    /\ hover_delay_timer # 0
    /\ ~slide_animation.running
    /\ UNCHANGED <<is_on_right, panel_width, panel_height>>
    /\ collapse_widget
    /\ UNCHANGED <<launch_timer, single_shots>>
    /\ timerCollapseFrame

\* launch_timer.timeout -> initial_collapse (single shot, 5000 ms after the 600 ms
\* slide animation was started)
LaunchTimeout ==
    /\ launch_timer # 0
    /\ ~slide_animation.running
    /\ launch_timer' = 0
    /\ UNCHANGED <<is_on_right, panel_width, panel_height>>
    /\ collapse_widget
    /\ UNCHANGED single_shots
    /\ timerCollapseFrame

\* QTimer.singleShot(50, collapse_widget) expires
SingleShotTimeout ==
    /\ single_shots # <<>>
    /\ single_shots' = Tail(single_shots)
    /\ UNCHANGED <<is_on_right, panel_width, panel_height>>
    /\ collapse_widget
    /\ UNCHANGED launch_timer
    /\ timerCollapseFrame

\* self.animation reaches its end value (finished: repaint, save_position)
AnimationFinished ==
    /\ animation.running
    /\ geometry' = setGeometry(geometry, animation.end)
    /\ animation' = [animation EXCEPT !.running = FALSE]
    /\ UNCHANGED <<is_expanded, is_on_right, dragging, resizing, hover_expand_enabled,
                   panel_width, panel_height, pressVars, resizeStartVars, update_timer,
                   auto_collapse_timer, hide_timer, hover_delay_timer, launch_timer,
                   single_shots, slide_animation, samplerVars, left_button, gestures,
                   user_input>>

\* self.slide_animation reaches its end value
SlideAnimationFinished ==
    /\ slide_animation.running
    /\ geometry' = setGeometry(geometry, slide_animation.end)
    /\ slide_animation' = [slide_animation EXCEPT !.running = FALSE]
    /\ UNCHANGED <<is_expanded, is_on_right, dragging, resizing, hover_expand_enabled,
                   panel_width, panel_height, pressVars, resizeStartVars, update_timer,
                   auto_collapse_timer, hide_timer, hover_delay_timer, launch_timer,
                   single_shots, animation, samplerVars, left_button, gestures,
                   user_input>>

----------------------------------------------------------------------------
(* Specification *)

Press == \E pos \in PressPoints(is_expanded, geometry.w, geometry.h) : MousePress(pos)

Move == \E delta \in MoveDeltas : MouseMove(delta)

Release == \E reading \in Readings : MouseRelease(reading)

Enter == \E reading \in Readings : EnterEvent(reading)

Filter ==
    \E type \in {"MouseButtonPress", "TouchBegin"}, pos \in FilterPoints(geometry) :
        EventFilter(type, pos)

Tray == \E reading \in Readings : ShowMonitor(reading)

Update == \E reading \in Readings : UpdateTimeout(reading)

Next ==
    \/ Press
    \/ Move
    \/ Release
    \/ Enter
    \/ LeaveEvent
    \/ Filter
    \/ ToggleHoverExpand
    \/ Tray
    \/ Update
    \/ AutoCollapseTimeout
    \/ HoverDelayTimeout
    \/ LaunchTimeout
    \/ SingleShotTimeout
    \/ AnimationFinished
    \/ SlideAnimationFinished

Spec == Init /\ [][Next]_vars

\* The event loop runs: the slide animation started at launch reaches its end and the
\* started launch timer expires
LaunchSpec == Spec /\ WF_vars(SlideAnimationFinished) /\ WF_vars(LaunchTimeout)

\* The same program with the pointer used for resizing: presses in the resize zones
ResizePress ==
    \E pos \in ResizePressPoints(is_expanded, geometry.w, geometry.h) : MousePress(pos)

ResizeMove == \E delta \in ResizeDeltas : MouseMove(delta)

ResizeNext ==
    \/ ResizePress
    \/ ResizeMove
    \/ Release
    \/ Enter
    \/ LeaveEvent
    \/ Filter
    \/ ToggleHoverExpand
    \/ Tray
    \/ Update
    \/ AutoCollapseTimeout
    \/ HoverDelayTimeout
    \/ LaunchTimeout
    \/ SingleShotTimeout
    \/ AnimationFinished
    \/ SlideAnimationFinished

ResizeSpec == Init /\ [][ResizeNext]_vars

\* The same program seen from the rate sampler: any clock and counter values at the
\* creation of the monitor and at each update, the widget collapsed by the launch
\* timer and by presses outside it and expanded again from the tray menu
SamplerInit == \E reading \in SampleReadings : InitWith(<<>>, reading)

SamplerUpdate == \E reading \in SampleReadings : UpdateTimeout(reading)

SamplerTray == \E reading \in SampleReadings : ShowMonitor(reading)

SamplerNext ==
    \/ SamplerUpdate
    \/ SamplerTray
    \/ Filter
    \/ SingleShotTimeout
    \/ LaunchTimeout
    \/ AnimationFinished
    \/ SlideAnimationFinished

SamplerSpec == SamplerInit /\ [][SamplerNext]_vars

----------------------------------------------------------------------------
(* Steps, as seen from the state alone *)

\* a step that handles a left press on the widget
PressStep == ~left_button /\ left_button'

\* a step that handles the left release
ReleaseStep == left_button /\ ~left_button'

\* the x coordinate of a collapsed widget docked to its edge
DockedX == IF is_on_right THEN ScreenWidth - widget_width ELSE 0

\* the widget state: expanded, edge, position and size, dragging, resizing
widgetState ==
    <<is_expanded, is_on_right, geometry, panel_width, panel_height, dragging, resizing>>

\* a step that handles a pointer input event: mouse press, move, release, enter,
\* leave, or a press or touch seen by the application-wide filter
PointerInput ==
    \/ \E pos \in PressPoints(is_expanded, geometry.w, geometry.h) : MousePress(pos)
    \/ \E delta \in MoveDeltas : MouseMove(delta)
    \/ \E reading \in Readings : MouseRelease(reading)
    \/ \E reading \in Readings : EnterEvent(reading)
    \/ LeaveEvent
    \/ \E type \in {"MouseButtonPress", "TouchBegin"}, pos \in FilterPoints(geometry) :
          EventFilter(type, pos)

\* a step in which a timer or a deferred callback expires
TimerExpiry ==
    \/ AutoCollapseTimeout
    \/ HoverDelayTimeout
    \/ LaunchTimeout
    \/ SingleShotTimeout

----------------------------------------------------------------------------
(* Claims *)

\* C1: network monitoring runs only when expanded.  In every reachable state the
\* 1-second update timer is active exactly when is_expanded is true, and no step
\* taken while is_expanded is false samples the network or changes a speed label.
C1_MonitoringOnlyWhenExpanded ==
    /\ [](update_timer \in {0, 1000})
    /\ []((update_timer # 0) <=> is_expanded)
    /\ [][~is_expanded =>
            /\ network_monitor' = network_monitor
            /\ upload_speed_label' = upload_speed_label
            /\ download_speed_label' = download_speed_label]_vars

\* C1 witness: the widget has sampled while expanded and is now collapsed, its
\* update timer stopped
C1_Witness ==
    /\ ~is_expanded
    /\ update_timer = 0
    /\ upload_speed_label # InitialLabel
    /\ network_monitor[1].last_time = 1

\* C2 (as claimed): whenever the widget is collapsed, no drag is in progress and no
\* geometry animation is running, its x is 0 on the left edge and
\* screen_width - widget_width on the right edge.
C2_CollapsedIsDocked ==
    (~is_expanded /\ ~dragging /\ ~animation.running /\ ~slide_animation.running)
        => geometry.x = DockedX

\* C3: when a drag is released, is_on_right becomes true exactly when the widget's
\* horizontal centre (x + panel_width // 2 expanded, x + widget_width // 2 collapsed)
\* is strictly greater than screen_width // 2; dragging is cleared and is_expanded
\* is unchanged.
C3_SnapPicksNearestEdge ==
    [][(ReleaseStep /\ dragging /\ ~resizing) =>
          /\ is_on_right' =
                 ((geometry.x + (IF is_expanded THEN panel_width \div 2 ELSE 6))
                      > ScreenWidth \div 2)
          /\ dragging' = FALSE
          /\ is_expanded' = is_expanded]_vars

\* C3 witness: a drag to the right of the middle has just been released and the
\* widget, which started on the left edge, now belongs to the right edge
C3_Witness ==
    /\ ~left_button /\ ~dragging /\ gestures = 1
    /\ geometry.x = mouse_press_position.x + FarDelta - drag_start_position.x
    /\ geometry.x + geometry.w \div 2 > ScreenWidth \div 2
    /\ is_on_right
    /\ animation.running

\* C4: the target rectangle of animate_to_edge is determined by (is_expanded,
\* is_on_right): x = screen_width - panel_width - 10 (expanded, right), 10 (expanded,
\* left), screen_width - widget_width (collapsed, right), 0 (collapsed, left); the
\* size is the panel size when expanded and the widget size when collapsed; y is the
\* current y clamped to [0, screen_height - target_height].
C4_AnimationTarget ==
    [][(animation'.running /\ animation' # animation) =>
          LET th == IF is_expanded' THEN panel_height' ELSE 40
              tw == IF is_expanded' THEN panel_width' ELSE 12
              tx == IF is_expanded' /\ is_on_right' THEN ScreenWidth - panel_width' - 10
                    ELSE IF is_expanded' THEN 10
                    ELSE IF is_on_right' THEN ScreenWidth - 12
                    ELSE 0
              ty == IF geometry'.y < 0 THEN 0
                    ELSE IF geometry'.y > ScreenHeight - th THEN ScreenHeight - th
                    ELSE geometry'.y
          IN  animation'.end = [x |-> tx, y |-> ty, w |-> tw, h |-> th]]_vars

\* C4 witness: an animation towards the right edge is running for an expanded panel
\* whose y had to be clamped to screen_height - panel_height
C4_Witness ==
    /\ animation.running
    /\ is_expanded /\ is_on_right
    /\ geometry.y > ScreenHeight - panel_height
    /\ animation.end.y = ScreenHeight - panel_height
    /\ animation.end.x = ScreenWidth - panel_width - 10

C6_ClickToggles ==
    [][ReleaseStep =>
          IF dragging \/ resizing THEN is_expanded' = is_expanded
          ELSE IF is_expanded THEN ~is_expanded'
          ELSE IF ~hover_expand_enabled THEN is_expanded'
          ELSE ~is_expanded']_vars

\* C6 witness: the collapsed handle was clicked with hover expand disabled and the
\* widget has expanded
C6_Witness ==
    /\ ~left_button /\ gestures = 1 /\ ~dragging /\ ~resizing
    /\ drag_start_position = [x |-> 6, y |-> 20]
    /\ ~hover_expand_enabled
    /\ is_expanded
    /\ animation.running

\* C7: outside click collapse.  When the filter sees a left press or a touch begin
\* while the widget is expanded, a position outside the widget's geometry schedules
\* collapse_widget 50 ms later and a position inside restarts the 10 s auto-collapse
\* timer instead; while the widget is collapsed neither happens.  The scheduled call
\* collapses the widget, and the filter never consumes the event.
C7_OutsideClickCollapse ==
    /\ [](\A i \in 1..Len(single_shots) : single_shots[i] = 50)
    /\ [](\A type \in {"MouseButtonPress", "TouchBegin"}, pos \in FilterPoints(geometry) :
             ~eventFilter(type, pos, is_expanded, geometry, single_shots,
                          auto_collapse_timer).consumed)
    /\ [][\A type \in {"MouseButtonPress", "TouchBegin"}, pos \in FilterPoints(geometry) :
            EventFilter(type, pos) =>
              LET inside == /\ geometry.x <= pos.x /\ pos.x < geometry.x + geometry.w
                            /\ geometry.y <= pos.y /\ pos.y < geometry.y + geometry.h
              IN  /\ is_expanded' = is_expanded
                  /\ geometry' = geometry
                  /\ IF is_expanded /\ ~inside
                     THEN /\ single_shots' = Append(single_shots, 50)
                          /\ auto_collapse_timer' = auto_collapse_timer
                     ELSE IF is_expanded
                     THEN /\ single_shots' = single_shots
                          /\ auto_collapse_timer' = 10000
                     ELSE /\ single_shots' = single_shots
                          /\ auto_collapse_timer' = auto_collapse_timer]_vars
    /\ [][SingleShotTimeout => ~is_expanded']_vars

\* C7 witness: a press or touch outside the expanded widget has scheduled the collapse
C7_Witness ==
    /\ is_expanded
    /\ user_input
    /\ single_shots = <<50>>

\* C8: launch transition.  The widget starts expanded whatever is_expanded the saved
\* file holds, and with no user input it stays expanded as long as the 5000 ms launch
\* timer is pending; the expiry of the launch timer leaves the widget collapsed, and
\* the timer, once expired, is never started again: under LaunchSpec it expires, and
\* it does so once.
C8_LaunchTransition ==
    /\ <>(launch_timer = 0)
    /\ [](launch_timer \in {0, 5000})
    /\ []((~user_input /\ launch_timer # 0) => is_expanded)
    /\ []((~user_input /\ launch_timer = 0) => ~is_expanded)
    /\ [][LaunchTimeout => (launch_timer = 5000 /\ ~is_expanded')]_vars
    /\ [][launch_timer = 0 => launch_timer' = 0]_vars

\* C8 witness: the launch timer has expired with no user input and the widget is
\* collapsed
C8_Witness ==
    /\ ~user_input
    /\ launch_timer = 0
    /\ ~is_expanded
    /\ update_timer = 0

\* C9: hover expand and delayed collapse.  A pointer enter expands the widget exactly
\* when hover_expand_enabled holds and the widget is neither expanded nor being
\* dragged or resized, and it always stops the hover delay timer; a pointer leave
\* with hover_expand_enabled, expanded, not dragging and not resizing starts that
\* timer with 10 s; its expiry collapses the widget.
C9_HoverExpandAndDelayedCollapse ==
    /\ [](hover_delay_timer \in {0, 10000})
    /\ [][\A reading \in Readings :
            EnterEvent(reading) =>
              /\ hover_delay_timer' = 0
              /\ (~is_expanded /\ is_expanded')
                   <=> (hover_expand_enabled /\ ~is_expanded /\ ~dragging /\ ~resizing)
              /\ is_expanded => is_expanded']_vars
    /\ [][LeaveEvent =>
            /\ is_expanded' = is_expanded
            /\ (hover_expand_enabled /\ is_expanded /\ ~dragging /\ ~resizing)
                 => hover_delay_timer' = 10000]_vars
    /\ [][HoverDelayTimeout => (~is_expanded' /\ hover_delay_timer' = 0)]_vars

\* C9 witness: the pointer has left the expanded widget with hover expand enabled and
\* the 10 s timer is pending
C9_Witness ==
    /\ hover_expand_enabled
    /\ is_expanded
    /\ ~dragging /\ ~resizing
    /\ hover_delay_timer = 10000

\* C10: unified dragging.  A press records the grab offset, the press position minus
\* the widget's top-left corner; every mouse move with the left button held that
\* leaves dragging true puts the top-left corner at the pointer position minus that
\* offset, collapsed or expanded, and changes neither the size nor is_expanded.
C10_UnifiedDragging ==
    /\ [][PressStep =>
            /\ drag_start_position'.x = mouse_press_position'.x - geometry.x
            /\ drag_start_position'.y = mouse_press_position'.y - geometry.y]_vars
    /\ [][\A delta \in MoveDeltas :
            (MouseMove(delta) /\ dragging') =>
              /\ geometry'.x = mouse_press_position.x + delta.x - drag_start_position.x
              /\ geometry'.y = mouse_press_position.y + delta.y - drag_start_position.y
              /\ geometry'.w = geometry.w
              /\ geometry'.h = geometry.h
              /\ is_expanded' = is_expanded
              /\ drag_start_position' = drag_start_position]_vars

\* C10 witness: the collapsed handle, grabbed at its centre, has been dragged far
\* across the screen
C10_Witness ==
    /\ left_button /\ dragging
    /\ ~is_expanded
    /\ drag_start_position = [x |-> 6, y |-> 20]
    /\ geometry.w = 12 /\ geometry.h = 40
    /\ Abs(geometry.x + 6 - mouse_press_position.x) = 600
    /\ Abs(geometry.y + 20 - mouse_press_position.y) = 300

\* C11: the panel size always stays within its limits.  In every reachable state,
\* after start-up with or without a saved file and after any resize gesture,
\* 220 <= panel_width <= 500 and 120 <= panel_height <= 400.
C11_PanelSizeWithinLimits ==
    /\ 220 <= panel_width /\ panel_width <= 500
    /\ 120 <= panel_height /\ panel_height <= 400

\* C11 witness: a resize from the bottom-left corner asked for more than the maximum
\* width and less than the minimum height
C11_Witness ==
    /\ resizing /\ left_button
    /\ is_on_right
    /\ resize_start_size = [w |-> 280, h |-> 160]
    /\ panel_width = 500
    /\ panel_height = 120

\* C12 (as claimed): every change of the widget state (expanded, edge, position, size,
\* dragging, resizing) happens in the handling of a pointer input event.
C12_OnlyPointerInputMutates ==
    [][widgetState' # widgetState => PointerInput]_vars

\* C12 (amended): the widget state changes in pointer input events and in three other
\* kinds of event: "Show Monitor" of the tray menu expands a collapsed widget; the
\* expiry of a timer or deferred callback collapses the widget and changes neither
\* its position, its edge, the panel size nor the gesture flags; the end of a geometry
\* animation changes the position only.  Edge, dragging and resizing change only in
\* the mouse press, move and release handlers.
C12_StateMutators ==
    /\ [][widgetState' # widgetState =>
            \/ PointerInput
            \/ /\ \E reading \in Readings : ShowMonitor(reading)
               /\ ~is_expanded /\ is_expanded'
               /\ geometry'.x = geometry.x /\ geometry'.y = geometry.y
               /\ UNCHANGED <<is_on_right, panel_width, panel_height, dragging, resizing>>
            \/ /\ TimerExpiry
               /\ ~is_expanded'
               /\ geometry'.x = geometry.x /\ geometry'.y = geometry.y
               /\ geometry'.w = 12 /\ geometry'.h = 40
               /\ UNCHANGED <<is_on_right, panel_width, panel_height, dragging, resizing>>
            \/ /\ AnimationFinished \/ SlideAnimationFinished
               /\ geometry'.w = geometry.w /\ geometry'.h = geometry.h
               /\ UNCHANGED <<is_expanded, is_on_right, panel_width, panel_height,
                              dragging, resizing>>]_vars
    /\ [][<<is_on_right, dragging, resizing>>' # <<is_on_right, dragging, resizing>> =>
            \/ \E pos \in PressPoints(is_expanded, geometry.w, geometry.h) : MousePress(pos)
            \/ \E delta \in MoveDeltas : MouseMove(delta)
            \/ \E reading \in Readings : MouseRelease(reading)]_vars

\* C12 witness: the panel was grabbed at its centre and is being dragged, and an
\* event that is no pointer input has collapsed it meanwhile
C12_Witness ==
    /\ left_button /\ dragging
    /\ drag_start_position.x >= 110
    /\ ~is_expanded
    /\ geometry.w = 12

\* C13: the rate sampler converts counter deltas to Mbps.  For the monitor of every
\* reachable state and every reading: when the elapsed time is positive,
\* get_network_speed returns ((bytes_sent - last_bytes_sent) / elapsed) * 8 / 1048576
\* for upload and the same on bytes_recv for download, both >= 0 when the counter has
\* not decreased; when the elapsed time is <= 0 it returns (0.0, 0.0).  The speed
\* labels show these values after an update.
C13_RateFormula ==
    /\ [](network_monitor # <<>> =>
            \A reading \in SampleReadings :
                LET m == network_monitor[1]
                    got == get_network_speed(m, reading)
                    elapsed == reading.time - m.last_time
                    sent == reading.bytes_sent - m.last_bytes_sent
                    recv == reading.bytes_recv - m.last_bytes_recv
                IN  IF elapsed > 0
                    THEN /\ got.upload.d > 0 /\ got.upload.d % 1048576 = 0
                         /\ got.download.d > 0 /\ got.download.d % 1048576 = 0
                         /\ got.upload.n * elapsed
                              = (sent * 8) * (got.upload.d \div 1048576)
                         /\ got.download.n * elapsed
                              = (recv * 8) * (got.download.d \div 1048576)
                         /\ sent >= 0 => got.upload.n >= 0
                         /\ recv >= 0 => got.download.n >= 0
                    ELSE /\ got.upload = [n |-> 0, d |-> 1]
                         /\ got.download = [n |-> 0, d |-> 1])
    /\ [][\A reading \in SampleReadings :
            (UpdateTimeout(reading) /\ is_expanded) =>
                LET m == network_monitor[1]
                    elapsed == reading.time - m.last_time
                IN  /\ upload_speed_label' =
                          format_speed(IF elapsed > 0
                                       THEN Speed((reading.bytes_sent - m.last_bytes_sent) * 8,
                                                  elapsed * 1048576)
                                       ELSE Speed(0, 1))
                    /\ download_speed_label' =
                          format_speed(IF elapsed > 0
                                       THEN Speed((reading.bytes_recv - m.last_bytes_recv) * 8,
                                                  elapsed * 1048576)
                                       ELSE Speed(0, 1))]_vars

\* C13 witness: one second after the monitor was created with counters 0 a sample
\* found 132072 bytes sent: 1.0076 Mbps, shown as 1.01 Mbps
C13_Witness ==
    /\ is_expanded
    /\ sample_log.first = <<[last_bytes_sent |-> 0, last_bytes_recv |-> 0, last_time |-> 0]>>
    /\ network_monitor[1].last_time = 1
    /\ network_monitor[1].last_bytes_sent = 132072
    /\ upload_speed_label = [negative |-> FALSE, scaled |-> 101, decimals |-> 2,
                             unit |-> "Mbps"]

\* C14: samples are consecutive deltas, no byte counted twice or lost.  After each
\* update with positive elapsed time the stored baseline equals the counters and time
\* just read; an update with elapsed time <= 0 leaves the baseline unchanged; and in
\* every reachable state the bytes counted by all samples so far add up to the last
\* stored counter minus the baseline the monitor was created with.
C14_ConsecutiveDeltas ==
    /\ [](/\ sample_log.sent = network_monitor[1].last_bytes_sent
                                 - sample_log.first[1].last_bytes_sent
          /\ sample_log.recv = network_monitor[1].last_bytes_recv
                                 - sample_log.first[1].last_bytes_recv)
    /\ [][\A reading \in SampleReadings :
            (UpdateTimeout(reading) /\ is_expanded) =>
                IF reading.time - network_monitor[1].last_time > 0
                THEN network_monitor' = <<[last_bytes_sent |-> reading.bytes_sent,
                                           last_bytes_recv |-> reading.bytes_recv,
                                           last_time |-> reading.time]>>
                ELSE network_monitor' = network_monitor]_vars

\* C14 witness: the monitor was created with 1000 bytes sent on the counter, the
\* last sample read 132072 at time 2, and the samples counted 131072 bytes between
C14_Witness ==
    /\ sample_log.first[1].last_bytes_sent = 1000
    /\ sample_log.first[1].last_time = 0
    /\ network_monitor[1].last_bytes_sent = 132072
    /\ network_monitor[1].last_time = 2
    /\ sample_log.sent = 131072

\* C15 (as claimed): in every pointer move of a resize gesture that started in the
\* top-right corner, the width becomes the clamped (start width + dx), the height the
\* clamped (start height - dy), and the widget's x is its x at the start of the gesture.
C15_TopRightResize ==
    [][\A delta \in ResizeDeltas :
          (/\ MouseMove(delta)
           /\ resizing
           /\ resize_cursor_type = "SizeBDiagCursor"
           /\ resize_start_position.x - resize_start_geometry.x >= resize_start_size.w - 8
           /\ resize_start_position.y - resize_start_geometry.y <= 8)
          => /\ panel_width' = Max(220, Min(resize_start_size.w + delta.x, 500))
             /\ panel_height' = Max(120, Min(resize_start_size.h - delta.y, 400))
             /\ geometry'.x = resize_start_geometry.x]_vars

\* C16 (as claimed): after every perform_resize of a gesture that started on the left
\* edge or a left corner, x + width is start x + start width; on the top edge or a
\* top corner, y + height is start y + start height, also when the size was clamped;
\* from a right edge or corner x, from a bottom edge or corner y, is its start value.
C16_OppositeEdgeFixed ==
    [][\A delta \in ResizeDeltas :
          (MouseMove(delta) /\ resizing) =>
            LET lx == resize_start_position.x - resize_start_geometry.x
                ly == resize_start_position.y - resize_start_geometry.y
                fromLeft == lx <= 8
                fromRight == lx >= resize_start_size.w - 8
                fromTop == ly <= 8
                fromBottom == ly >= resize_start_size.h - 8
            IN  /\ fromLeft => geometry'.x + panel_width'
                                 = resize_start_geometry.x + resize_start_size.w
                /\ fromTop => geometry'.y + panel_height'
                                = resize_start_geometry.y + resize_start_size.h
                /\ fromRight => geometry'.x = resize_start_geometry.x
                /\ fromBottom => geometry'.y = resize_start_geometry.y]_vars

\* C17 (as claimed): the widget is not auto-collapsed during a drag or a resize.  While
\* dragging or resizing is true and the left button has not been released, no timer
\* expiry or deferred single shot changes is_expanded from true to false.
C17_NoAutoCollapseDuringGesture ==
    [][((dragging \/ resizing) /\ left_button /\ TimerExpiry)
          => ~(is_expanded /\ ~is_expanded')]_vars

\* C18 (as claimed): collapse_widget stops all timers.  Immediately after every step
\* that collapses the widget, none of auto_collapse_timer, hover_delay_timer,
\* hide_timer and launch_timer is active.
C18_CollapseStopsAllTimers ==
    [][(is_expanded /\ ~is_expanded')
          => /\ auto_collapse_timer' = 0
             /\ hover_delay_timer' = 0
             /\ hide_timer' = 0
             /\ launch_timer' = 0]_vars

\* C19: dragging and resizing are mutually exclusive.  In every reachable state at
\* most one of dragging and resizing is true; every left press leaves dragging false
\* and leaves resizing true only when this press itself started a resize (no flag of
\* an earlier gesture survives the press); and no step taken during a resize while
\* the button stays down, every pointer move among them, starts a drag.
C19_DragResizeExclusive ==
    /\ [](~(dragging /\ resizing))
    /\ [][PressStep =>
            /\ ~dragging'
            /\ resizing' <=>
                  /\ is_expanded
                  /\ get_resize_cursor_zone(is_expanded, drag_start_position',
                                            geometry.w, geometry.h) # "None"]_vars
    /\ [][(resizing /\ left_button /\ left_button') => ~dragging']_vars

\* C19 witness: a resize is in progress and the pointer is farther than the drag
\* threshold from the press position (the panel was resized to 500 wide), and no drag
\* has started.
C19_Witness ==
    /\ resizing
    /\ ~dragging
    /\ left_button
    /\ is_expanded
    /\ panel_width = max_panel_width
    /\ resize_start_size.w < max_panel_width

\* C20: the sampling baseline is carried across collapse and re-expansion.  The widget
\* has no NetworkMonitor before its first expansion (the launch) and always has one
\* afterwards; the monitor's baseline changes only in a sample taken while expanded,
\* to the counters and time of that sample, so no step taken while collapsed and no
\* collapse or expansion changes it, and every sample, the first after a re-expansion
\* included, is computed against the baseline of the last sample before it.
C20_BaselineCarriedAcrossCollapse ==
    /\ defaults.network_monitor = <<>>
    /\ [](network_monitor # <<>>)
    /\ [][~is_expanded => UNCHANGED <<network_monitor, upload_speed_label,
                                       download_speed_label>>]_vars
    /\ [][(is_expanded # is_expanded') => network_monitor' = network_monitor]_vars
    /\ [][network_monitor' # network_monitor =>
            /\ is_expanded
            /\ \E reading \in SampleReadings :
                  LET got == get_network_speed(network_monitor[1], reading)
                  IN  /\ UpdateTimeout(reading)
                      /\ network_monitor' = <<got.monitor>>
                      /\ upload_speed_label' = format_speed(got.upload)
                      /\ download_speed_label' = format_speed(got.download)]_vars

\* C20 witness: the launch timer collapsed the widget and it was expanded again; the
\* monitor was created at launch with 1000 bytes sent at time 0, and the panel shows
\* a sample read at time 2 that was computed against that baseline.
C20_Witness ==
    /\ is_expanded
    /\ launch_timer = 0
    /\ sample_log.first[1].last_time = 0
    /\ sample_log.first[1].last_bytes_sent = SampleSentSmall
    /\ network_monitor[1].last_time = MaxSampleTime
    /\ network_monitor[1].last_bytes_sent = SampleSentLarge
    /\ upload_speed_label =
          format_speed(get_network_speed(sample_log.first[1],
                                         [time |-> MaxSampleTime,
                                          bytes_sent |-> SampleSentLarge,
                                          bytes_recv |-> 0]).upload)

\* C21: format_speed selects the unit by a threshold of 1.0 Mbps.  Every sample that
\* moves the baseline by (bytes, seconds) has the speed s = bytes * 8 / (seconds *
\* 1048576); the label then shows s to two decimals (the nearest hundredth) with the
\* unit Mbps when s >= 1.0, and s * 1024 to one decimal (the nearest tenth, with the
\* sign of s) with the unit Kbps when s < 1.0, negative s and s = 0 included.  A
\* sample that returns early with the speed 0.0 shows 0.0 Kbps.
C21_UnitByThreshold ==
    [][LET Shows(label, bytes, seconds) ==
               \* s = bytes * 8 / (seconds * 1048576) = bytes / (seconds * 131072)
               IF bytes >= seconds * 131072
               THEN /\ label.unit = "Mbps"
                    /\ label.decimals = 2
                    /\ ~label.negative
                    \* |100 * s - scaled| <= 1/2
                    /\ Abs(200 * bytes - 2 * label.scaled * seconds * 131072)
                          <= seconds * 131072
               ELSE /\ label.unit = "Kbps"
                    /\ label.decimals = 1
                    /\ label.negative = (bytes < 0)
                    /\ label.scaled >= 0
                    \* |10 * 1024 * |s| - scaled| <= 1/2, 1024 * s = bytes / (seconds * 128)
                    /\ Abs(20 * Abs(bytes) - 2 * label.scaled * seconds * 128)
                          <= seconds * 128
       IN  /\ network_monitor' # network_monitor =>
                LET seconds == network_monitor'[1].last_time - network_monitor[1].last_time
                IN  /\ seconds > 0
                    /\ Shows(upload_speed_label',
                             network_monitor'[1].last_bytes_sent
                               - network_monitor[1].last_bytes_sent, seconds)
                    /\ Shows(download_speed_label',
                             network_monitor'[1].last_bytes_recv
                               - network_monitor[1].last_bytes_recv, seconds)
           /\ (/\ network_monitor' = network_monitor
               /\ <<upload_speed_label', download_speed_label'>>
                     # <<upload_speed_label, download_speed_label>>) =>
                /\ upload_speed_label' = Text(FALSE, 0, 1, "Kbps")
                /\ download_speed_label' = Text(FALSE, 0, 1, "Kbps")]_vars

\* C21 witness: a sample two seconds after the baseline read 262144 more bytes
\* received, exactly 1.0 Mbps, shown as "1.00 Mbps", and 1000 fewer bytes sent, a
\* negative speed below the threshold, shown as "-3.9 Kbps".
C21_Witness ==
    /\ network_monitor[1].last_time = 2
    /\ network_monitor[1].last_bytes_sent = 0
    /\ network_monitor[1].last_bytes_recv = SampleRecvLarge
    /\ upload_speed_label = Text(TRUE, 39, 1, "Kbps")
    /\ download_speed_label = Text(FALSE, 100, 2, "Mbps")

====
